---- MODULE Spec2Model ----
(***************************************************************************)
(* Model of scripts/parentality_engine.py: the parentality preview engine. *)
(*                                                                         *)
(* Python dicts keep insertion order, so a dict whose order is observable  *)
(* (a score map, the improvements map) is a sequence of entries with       *)
(* pairwise distinct keys; a dict read by key only is a record, and        *)
(* d.get(k, default) is a test of k \in DOMAIN d.  A parsed JSON document  *)
(* is wrapped as [type |-> "object", obj |-> ...] so that a well-formed    *)
(* JSON value of another type (a top-level array) can be told apart: the   *)
(* code calls .get on it and raises AttributeError.  Scores are integers   *)
(* (on an integer, int(v) of clamp_score is the identity).                 *)
(***************************************************************************)
EXTENDS Integers, Sequences, FiniteSets, TLC

VARIABLES pc, args, state, eval_result, plan, prev, output, written, error,
          classified, raw, clamped, band

vars == <<pc, args, state, eval_result, plan, prev, output, written, error,
          classified, raw, clamped, band>>

---------------------------------------------------------------------------
(* Bounds of the model.                                                    *)

\* longest score map of a state document (evaluation and plan)
MaxMetrics == 3
\* longest score map of the two evaluations given to the recovery comparator
MaxCmpMetrics == 2
\* longest score map of either document of a whole invocation of main
MaxMainMetrics == 2
\* how far below 0 and above 100 the raw scores of the band check reach
Overshoot == 10

---------------------------------------------------------------------------
(* Static tables.                                                          *)

\* ThresholdBand(name, min, max) instances, in list order
BANDS ==
  << [name |-> "monitor", min |-> 0,  max |-> 39],
     [name |-> "soft",    min |-> 40, max |-> 69],
     [name |-> "active",  min |-> 70, max |-> 84],
     [name |-> "urgent",  min |-> 85, max |-> 100] >>

PARENT_ACTIONS ==
  [ parentA |->
      [ fear       |-> "Talk calmly, validate emotion, guide one grounding breath cycle.",
        anger      |-> "De-escalate tone, acknowledge frustration, suggest a pause.",
        bonding    |-> "Initiate warm check-in and reaffirm relationship safety.",
        protection |-> "Provide emotional safety and reassure child it is not alone." ],
    parentB |->
      [ learning   |-> "Break problem into 1 small lesson + 1 practice step.",
        hunger     |-> "Give one concrete task with clear reward and completion signal.",
        protection |-> "Apply practical safeguards, boundaries, and contingency plan." ] ]

\* default of close_context_if_improved's min_improvement parameter
MinImprovement == 8

\* the empty dict {} / the empty list []
Empty == << >>

\* JSON null where a dict is expected, and Python's None where a string is
Null == [json |-> "null"]
None == "None"

\* d.get(k, default) on a dict modelled as a record
Get(d, k, default) == IF k \in DOMAIN d THEN d[k] ELSE default

---------------------------------------------------------------------------
(* Pure helpers.                                                           *)

Min2(a, b) == IF a <= b THEN a ELSE b
Max2(a, b) == IF a >= b THEN a ELSE b

\* max(0, min(100, int(v)))
clamp_score(v) == Max2(0, Min2(100, v))

\* the bands of BANDS whose range holds score, by index
MatchingBands(score) ==
  { i \in DOMAIN BANDS : BANDS[i].min <= score /\ score <= BANDS[i].max }

\* faulty variant: the lower boundary of a band taken as exclusive
band_for_score_strict(score) ==
  LET hits == { i \in DOMAIN BANDS : BANDS[i].min < score /\ score <= BANDS[i].max }
  IN  IF hits = {} THEN "monitor"
      ELSE BANDS[CHOOSE i \in hits : \A j \in hits : i <= j].name

\* first band in list order whose range holds score; "monitor" when none does
band_for_score(score) ==
  LET hits == MatchingBands(score)
  IN  IF hits = {} THEN "monitor"
      ELSE BANDS[CHOOSE i \in hits : \A j \in hits : i <= j].name

\* {k: clamp_score(v) for k, v in scores.items()}
ClampAll(scores) ==
  [ i \in DOMAIN scores |->
      [metric |-> scores[i].metric, score |-> clamp_score(scores[i].score)] ]

\* the loop of evaluate_child: one event per non-monitor metric, in map order
RECURSIVE EventsOf(_)
EventsOf(scores) ==
  IF scores = << >> THEN << >>
  ELSE LET e     == Head(scores)
           level == band_for_score(e.score)
       IN  IF level = "monitor" THEN EventsOf(Tail(scores))
           ELSE << [metric |-> e.metric, score |-> e.score, level |-> level] >>
                \o EventsOf(Tail(scores))

\* insert e behind every event whose score is >= e.score (keeps ties in order)
RECURSIVE InsertDesc(_, _)
InsertDesc(e, sorted) ==
  IF sorted = << >> THEN << e >>
  ELSE IF Head(sorted).score >= e.score
       THEN << Head(sorted) >> \o InsertDesc(e, Tail(sorted))
       ELSE << e >> \o sorted

\* faulty variant: the events returned in map order, not sorted
KeepOrder(events) == events

\* sorted(events, key=lambda e: e["score"], reverse=True): stable, descending
RECURSIVE SortedDesc(_)
SortedDesc(events) ==
  IF events = << >> THEN << >>
  ELSE InsertDesc(events[Len(events)], SortedDesc(SubSeq(events, 1, Len(events) - 1)))

\* "not x" is false: x is neither None nor an empty dict
Truthy(x) == x # Null /\ x # Empty

NoChildEvaluation ==
  [ hasChild |-> FALSE,
    status   |-> "no-child",
    message  |-> "No child generated yet. Parenting instincts stay inactive.",
    events   |-> << >> ]

\* a "scores" that is null takes the same path as a missing one ("or {}") and
\* is modelled by the missing key
evaluate_child(doc) ==
  LET child == Get(doc, "child", Null)
  IN
  IF ~Truthy(child) THEN NoChildEvaluation
  ELSE LET scores == ClampAll(Get(child, "scores", Empty))
       IN  [ hasChild |-> TRUE,
             status   |-> "ok",
             childId  |-> Get(child, "id", None),
             stage    |-> Get(child, "stage", None),
             scores   |-> scores,
             events   |-> SortedDesc(EventsOf(scores)) ]

\* datetime.now(timezone.utc).isoformat(): the clock is read, never compared;
\* one token stands for whatever instant it returns
UtcNow == "utc-now-iso8601"

\* faulty variant: "elif" for parentB, so a metric of both tables yields one
\* suggestion
RECURSIVE SuggestionsOfElif(_)
SuggestionsOfElif(events) ==
  IF events = << >> THEN << >>
  ELSE LET ev == Head(events)
           one == IF ev.metric \in DOMAIN PARENT_ACTIONS.parentA
                  THEN << [ parent |-> "parentA", metric |-> ev.metric, level |-> ev.level,
                            action |-> PARENT_ACTIONS.parentA[ev.metric] ] >>
                  ELSE IF ev.metric \in DOMAIN PARENT_ACTIONS.parentB
                  THEN << [ parent |-> "parentB", metric |-> ev.metric, level |-> ev.level,
                            action |-> PARENT_ACTIONS.parentB[ev.metric] ] >>
                  ELSE << >>
       IN  one \o SuggestionsOfElif(Tail(events))

\* the loop of build_instinct_plan: parentA's entry, then parentB's, per event
RECURSIVE SuggestionsOf(_)
SuggestionsOf(events) ==
  IF events = << >> THEN << >>
  ELSE LET ev     == Head(events)
           metric == ev.metric
           level  == ev.level
           forA   == IF metric \in DOMAIN PARENT_ACTIONS.parentA
                     THEN << [ parent |-> "parentA", metric |-> metric, level |-> level,
                               action |-> PARENT_ACTIONS.parentA[metric] ] >>
                     ELSE << >>
           forB   == IF metric \in DOMAIN PARENT_ACTIONS.parentB
                     THEN << [ parent |-> "parentB", metric |-> metric, level |-> level,
                               action |-> PARENT_ACTIONS.parentB[metric] ] >>
                     ELSE << >>
       IN  forA \o forB \o SuggestionsOf(Tail(events))

\* the fixed cron descriptors of a threshold-crossed plan
Crons(now) ==
  << [ name         |-> "parentality-keepalive-check",
       kind         |-> "every",
       everyMinutes |-> 20,
       purpose      |-> "Recompute child scores and detect threshold crossings." ],
     [ name         |-> "parentality-instinct-intervention",
       kind         |-> "event-or-poll",
       everyMinutes |-> 10,
       purpose      |-> "Trigger parent-specific complementary intervention suggestions.",
       enabledWhen  |-> "child exists AND any score >= soft threshold" ],
     [ name         |-> "parentality-recovery-check",
       kind         |-> "every",
       everyMinutes |-> 20,
       purpose      |-> "Compare post-action score against previous and close instinct context when improved.",
       startedAt    |-> now ] >>

\* faulty variant: the "stable" early return left out
build_instinct_plan_no_stable(ev) ==
  IF ~Get(ev, "hasChild", FALSE)
  THEN [enabled |-> FALSE, reason |-> "no-child", crons |-> << >>, suggestions |-> << >>]
  ELSE [enabled |-> TRUE, reason |-> "threshold-crossed", crons |-> Crons(UtcNow),
        suggestions |-> << >>]

build_instinct_plan(ev) ==
  IF ~Get(ev, "hasChild", FALSE)
  THEN [enabled |-> FALSE, reason |-> "no-child", crons |-> << >>, suggestions |-> << >>]
  ELSE LET events == Get(ev, "events", Empty)
       IN  IF events = << >>
           THEN [enabled |-> TRUE, reason |-> "stable", crons |-> << >>,
                 suggestions |-> << >>]
           ELSE [enabled |-> TRUE, reason |-> "threshold-crossed",
                 crons |-> Crons(UtcNow), suggestions |-> SuggestionsOf(events)]

\* scores.get(metric, default) on a score map
Lookup(scores, metric, default) ==
  IF \E i \in DOMAIN scores : scores[i].metric = metric
  THEN scores[CHOOSE i \in DOMAIN scores : scores[i].metric = metric].score
  ELSE default

\* faulty variant: a metric absent from the current map read as 0
CurOfZero(cur_scores, e) == Lookup(cur_scores, e.metric, 0)

\* lines 187-188: the current score of a previous metric, and its delta
CurOf(cur_scores, e) == Lookup(cur_scores, e.metric, e.score)
DeltaOf(cur_scores, e) == e.score - CurOf(cur_scores, e)

\* faulty variant: "delta <= min_improvement"
StillFlaggedLe(cur_scores, e, min_improvement) ==
  /\ band_for_score(e.score) # "monitor"
  /\ (e.score - Lookup(cur_scores, e.metric, e.score)) <= min_improvement
  /\ band_for_score(Lookup(cur_scores, e.metric, e.score)) # "monitor"

\* the condition of line 190
StillFlagged(cur_scores, e, min_improvement) ==
  /\ band_for_score(e.score) # "monitor"
  /\ DeltaOf(cur_scores, e) < min_improvement
  /\ band_for_score(CurOf(cur_scores, e)) # "monitor"

\* improvements[metric] = delta, in the order of the previous map
Improvements(prev_scores, cur_scores) ==
  [ i \in DOMAIN prev_scores |->
      [metric |-> prev_scores[i].metric, delta |-> DeltaOf(cur_scores, prev_scores[i])] ]

\* unresolved.append(metric), in the order of the previous map
RECURSIVE Unresolved(_, _, _)
Unresolved(prev_scores, cur_scores, min_improvement) ==
  IF prev_scores = << >> THEN << >>
  ELSE (IF StillFlagged(cur_scores, Head(prev_scores), min_improvement)
        THEN << Head(prev_scores).metric >> ELSE << >>)
       \o Unresolved(Tail(prev_scores), cur_scores, min_improvement)

close_context_if_improved(previous, current, min_improvement) ==
  LET prev_scores == Get(previous, "scores", Empty)
      cur_scores  == Get(current, "scores", Empty)
      unresolved  == Unresolved(prev_scores, cur_scores, min_improvement)
  IN  [ improvements |-> Improvements(prev_scores, cur_scores),
        resolved     |-> Len(unresolved) = 0,
        unresolved   |-> unresolved,
        nextAction   |-> IF Len(unresolved) = 0 THEN "exit-instinct-context"
                         ELSE "continue-or-escalate" ]

\* the arguments band_for_score is called with by evaluate_child (line 92)
EvaluateBandCalls(doc) ==
  LET ev == evaluate_child(doc)
  IN  { Get(ev, "scores", Empty)[i].score : i \in DOMAIN Get(ev, "scores", Empty) }

\* the arguments band_for_score is called with by line 190; "and" evaluates its
\* right operand only when the left one is true
RecoveryBandCalls(previous, current, min_improvement) ==
  LET prev_scores == Get(previous, "scores", Empty)
      cur_scores  == Get(current, "scores", Empty)
      idx         == DOMAIN prev_scores
  IN  { prev_scores[i].score : i \in idx }
      \cup { CurOf(cur_scores, prev_scores[i]) :
               i \in { j \in idx :
                         /\ band_for_score(prev_scores[j].score) # "monitor"
                         /\ DeltaOf(cur_scores, prev_scores[j]) < min_improvement } }

---------------------------------------------------------------------------
(* Input documents.                                                        *)

\* the ordered score maps of at most maxlen entries over metrics and scores
ScoreMaps(metrics, scores, maxlen) ==
  UNION { { m \in [1..n -> [metric : metrics, score : scores]] :
              \A i, j \in 1..n : i # j => m[i].metric # m[j].metric } :
          n \in 0..maxlen }

\* a parsed JSON object / a parsed JSON value that is no object
Object(obj) == [type |-> "object", obj |-> obj]
Array == [type |-> "array", obj |-> Empty]

\* what a load_json call can meet
IOError == [status |-> "io-error", value |-> Array]
ParseError == [status |-> "parse-error", value |-> Array]
Loaded(value) == [status |-> "ok", value |-> value]

\* state documents: no "child", a null or empty child, a child with or without
\* "scores"
StateObjects(maps) ==
  { Empty, [child |-> Null], [child |-> Empty], [child |-> [id |-> "c1"]] }
  \cup { [child |-> [id |-> "c1", stage |-> "infant", scores |-> m]] : m \in maps }

\* an "ok" evaluation as an output document carries it
EvaluationWith(scores) ==
  [ hasChild |-> TRUE, status |-> "ok", childId |-> "c1", stage |-> "infant",
    scores |-> scores, events |-> SortedDesc(EventsOf(scores)) ]

\* previous documents: with no "evaluation", with the no-child evaluation, with
\* an evaluation holding a score map
PreviousObjects(maps) ==
  { Empty, [evaluation |-> NoChildEvaluation] }
  \cup { [evaluation |-> EvaluationWith(m)] : m \in maps }

\* metrics of parentA only, of parentB only, of both, of neither
EvalMetrics == {"fear", "learning", "protection", "curiosity"}
EvalScores == {-5, 39, 40, 70, 85, 150}

CmpMetrics == {"fear", "learning", "curiosity"}
CmpPrevScores == {35, 40, 47, 48, 150}
CmpCurScores == {35, 40, 150}

MainMetrics == {"fear", "learning", "curiosity"}
MainStateScores == {20, 45, 150}
MainPrevScores == {-5, 45, 150}

EvalStateFiles ==
  { Object(o) : o \in StateObjects(ScoreMaps(EvalMetrics, EvalScores, MaxMetrics)) }

CmpPrevious ==
  { Object(o) : o \in PreviousObjects(ScoreMaps(CmpMetrics, CmpPrevScores, MaxCmpMetrics)) }

CmpCurrent ==
  { NoChildEvaluation }
  \cup { EvaluationWith(m) : m \in ScoreMaps(CmpMetrics, CmpCurScores, MaxCmpMetrics) }

MainStateFiles ==
  { IOError, ParseError, Loaded(Array) }
  \cup { Loaded(Object(o)) :
           o \in StateObjects(ScoreMaps(MainMetrics, MainStateScores, MaxMainMetrics)) }

MainPreviousFiles ==
  { IOError, ParseError, Loaded(Array), Loaded(Object([evaluation |-> Null])) }
  \cup { Loaded(Object(o)) :
           o \in PreviousObjects(ScoreMaps(MainMetrics, MainPrevScores, MaxMainMetrics)) }

---------------------------------------------------------------------------
(* One invocation of main.                                                 *)

\* a local of main that is not bound yet
Unbound == [unbound |-> TRUE]

\* argparse: --previous and --out are optional (None when not given)
Args ==
  [ state : {"state.json"}, previous : {None, "previous.json"},
    out : {None, "out.json"} ]

\* "if args.x:" for an option that is a path or None
Given(option) == option # None

Init ==
  /\ pc = "load_state"
  /\ args \in Args
  /\ state = Unbound
  /\ eval_result = Unbound
  /\ plan = Unbound
  /\ prev = Unbound
  /\ output = Unbound
  /\ written = << >>
  /\ error = "none"
  /\ classified = {}
  /\ raw = 0
  /\ clamped = 0
  /\ band = "unset"

\* line 209: state = load_json(state_path)
LoadState ==
  /\ pc = "load_state"
  /\ \E f \in MainStateFiles :
       /\ f.status = "ok"
       /\ state' = f.value
  /\ pc' = "evaluate"
  /\ UNCHANGED <<args, eval_result, plan, prev, output, written, error,
                 classified, raw, clamped, band>>

\* line 209 raising OSError or JSONDecodeError
LoadStateFails ==
  /\ pc = "load_state"
  /\ \E f \in MainStateFiles :
       /\ f.status # "ok"
       /\ error' = f.status
  /\ pc' = "raised"
  /\ UNCHANGED <<args, state, eval_result, plan, prev, output, written,
                 classified, raw, clamped, band>>

\* line 211: eval_result = evaluate_child(state)
Evaluate ==
  /\ pc = "evaluate"
  /\ state.type = "object"
  /\ eval_result' = evaluate_child(state.obj)
  /\ classified' = classified \cup EvaluateBandCalls(state.obj)
  /\ pc' = "plan"
  /\ UNCHANGED <<args, state, plan, prev, output, written, error, raw, clamped, band>>

\* line 80 on a document that is no JSON object: AttributeError
EvaluateRaises ==
  /\ pc = "evaluate"
  /\ state.type # "object"
  /\ error' = "type-error"
  /\ pc' = "raised"
  /\ UNCHANGED <<args, state, eval_result, plan, prev, output, written,
                 classified, raw, clamped, band>>

\* lines 212-217: plan = build_instinct_plan(eval_result); output = {...}
BuildPlan ==
  /\ pc = "plan"
  /\ plan' = build_instinct_plan(eval_result)
  /\ output' = [evaluatedAt |-> UtcNow, evaluation |-> eval_result, plan |-> plan']
  /\ pc' = IF Given(args.previous) THEN "load_previous" ELSE "emit"
  /\ UNCHANGED <<args, state, eval_result, prev, written, error, classified,
                 raw, clamped, band>>

\* line 220: prev = load_json(Path(args.previous))
LoadPrevious ==
  /\ pc = "load_previous"
  /\ \E f \in MainPreviousFiles :
       /\ f.status = "ok"
       /\ prev' = f.value
  /\ pc' = "recover"
  /\ UNCHANGED <<args, state, eval_result, plan, output, written, error,
                 classified, raw, clamped, band>>

\* faulty variant: the failed read of the previous document is swallowed and
\* main goes on to write its output without a recovery
LoadPreviousFailsSwallowed ==
  /\ pc = "load_previous"
  /\ \E f \in MainPreviousFiles :
       /\ f.status # "ok"
       /\ error' = f.status
  /\ pc' = "emit"
  /\ UNCHANGED <<args, state, eval_result, plan, prev, output, written,
                 classified, raw, clamped, band>>

\* line 220 raising OSError or JSONDecodeError
LoadPreviousFails ==
  /\ pc = "load_previous"
  /\ \E f \in MainPreviousFiles :
       /\ f.status # "ok"
       /\ error' = f.status
  /\ pc' = "raised"
  /\ UNCHANGED <<args, state, eval_result, plan, prev, output, written,
                 classified, raw, clamped, band>>

\* prev.get("evaluation", {}) and the .get calls on it are defined
PreviousUsable(p) ==
  /\ p.type = "object"
  /\ Get(p.obj, "evaluation", Empty) # Null

\* faulty variant: the comparator is given the previous document itself, not
\* its "evaluation" sub-object
RecoverFromDocument ==
  /\ pc = "recover"
  /\ PreviousUsable(prev)
  /\ output' = output @@
       [recovery |-> close_context_if_improved(prev.obj, eval_result, MinImprovement)]
  /\ classified' = classified \cup
       RecoveryBandCalls(prev.obj, eval_result, MinImprovement)
  /\ pc' = "emit"
  /\ UNCHANGED <<args, state, eval_result, plan, prev, written, error, raw,
                 clamped, band>>

\* line 221: output["recovery"] = close_context_if_improved(prev.get("evaluation", {}), eval_result)
Recover ==
  /\ pc = "recover"
  /\ PreviousUsable(prev)
  /\ output' = output @@
       [recovery |-> close_context_if_improved(Get(prev.obj, "evaluation", Empty),
                                               eval_result, MinImprovement)]
  /\ classified' = classified \cup
       RecoveryBandCalls(Get(prev.obj, "evaluation", Empty), eval_result, MinImprovement)
  /\ pc' = "emit"
  /\ UNCHANGED <<args, state, eval_result, plan, prev, written, error, raw,
                 clamped, band>>

\* line 221 on a previous document that is no object, or whose "evaluation" is
\* null: AttributeError
RecoverRaises ==
  /\ pc = "recover"
  /\ ~PreviousUsable(prev)
  /\ error' = "type-error"
  /\ pc' = "raised"
  /\ UNCHANGED <<args, state, eval_result, plan, prev, output, written,
                 classified, raw, clamped, band>>

\* lines 223-226: save_json(Path(args.out), output) or print(json.dumps(output))
Emit ==
  /\ pc = "emit"
  /\ written' = Append(written,
       [ to |-> IF Given(args.out) THEN args.out ELSE "stdout", document |-> output ])
  /\ pc' = "done"
  /\ UNCHANGED <<args, state, eval_result, plan, prev, output, error, classified,
                 raw, clamped, band>>

\* lines 73-74 raising OSError (mkdir or open refused), or print refused:
\* nothing is written (a failure in the middle of json.dump is not modelled)
EmitFails ==
  /\ pc = "emit"
  /\ error' = "write-error"
  /\ pc' = "raised"
  /\ UNCHANGED <<args, state, eval_result, plan, prev, output, written,
                 classified, raw, clamped, band>>

Next ==
  \/ LoadState
  \/ LoadStateFails
  \/ Evaluate
  \/ EvaluateRaises
  \/ BuildPlan
  \/ LoadPrevious
  \/ LoadPreviousFails
  \/ Recover
  \/ RecoverRaises
  \/ Emit
  \/ EmitFails

Spec == Init /\ [][Next]_vars

---------------------------------------------------------------------------
(* evaluate_child and build_instinct_plan on every state document.         *)

InitEval ==
  /\ pc = "evaluate"
  /\ args = [state |-> "state.json", previous |-> None, out |-> None]
  /\ state \in EvalStateFiles
  /\ eval_result = Unbound
  /\ plan = Unbound
  /\ prev = Unbound
  /\ output = Unbound
  /\ written = << >>
  /\ error = "none"
  /\ classified = {}
  /\ raw = 0
  /\ clamped = 0
  /\ band = "unset"

NextEval == Evaluate \/ BuildPlan

SpecEval == InitEval /\ [][NextEval]_vars

---------------------------------------------------------------------------
(* close_context_if_improved on every pair of evaluations.                 *)

InitCmp ==
  /\ pc = "recover"
  /\ args = [state |-> "state.json", previous |-> "previous.json", out |-> None]
  /\ state = Unbound
  /\ eval_result \in CmpCurrent
  /\ plan = build_instinct_plan(eval_result)
  /\ prev \in CmpPrevious
  /\ output = [evaluatedAt |-> UtcNow, evaluation |-> eval_result, plan |-> plan]
  /\ written = << >>
  /\ error = "none"
  /\ classified = {}
  /\ raw = 0
  /\ clamped = 0
  /\ band = "unset"

NextCmp == Recover

SpecCmp == InitCmp /\ [][NextCmp]_vars

---------------------------------------------------------------------------
(* clamp_score and band_for_score on every raw score.                      *)

RawScores == (0 - Overshoot)..(100 + Overshoot)

InitBand ==
  /\ pc = "score"
  /\ args = [state |-> "state.json", previous |-> None, out |-> None]
  /\ state = Unbound
  /\ eval_result = Unbound
  /\ plan = Unbound
  /\ prev = Unbound
  /\ output = Unbound
  /\ written = << >>
  /\ error = "none"
  /\ classified = {}
  /\ raw \in RawScores
  /\ clamped = raw
  /\ band = "unset"

\* clamp_score(v)
ClampScore ==
  /\ pc = "score"
  /\ clamped' = clamp_score(raw)
  /\ pc' = "clamped"
  /\ UNCHANGED <<args, state, eval_result, plan, prev, output, written, error,
                 classified, raw, band>>

\* band_for_score(score) on the raw score (the function takes any integer) or,
\* after ClampScore, on the clamped one; clamped holds the score classified
BandForScore ==
  /\ pc \in {"score", "clamped"}
  /\ band' = band_for_score(clamped)
  /\ classified' = {clamped}
  /\ pc' = "banded"
  /\ UNCHANGED <<args, state, eval_result, plan, prev, output, written, error,
                 raw, clamped>>

NextBand == ClampScore \/ BandForScore

SpecBand == InitBand /\ [][NextBand]_vars

---------------------------------------------------------------------------
(* Properties.  Each is stated from the inputs, not by re-running the      *)
(* operator it is about.                                                   *)

\* the score a raw score is read as, and the band of a score of 0..100
ExpectedClamp(v) == IF v < 0 THEN 0 ELSE IF v > 100 THEN 100 ELSE v
ExpectedBand(v) ==
  IF v <= 39 THEN "monitor" ELSE IF v <= 69 THEN "soft"
  ELSE IF v <= 84 THEN "active" ELSE "urgent"

\* the raw score map of the loaded state document's child
RawScoresOfState == Get(Get(state.obj, "child", Null), "scores", Empty)
ChildExists == Truthy(Get(state.obj, "child", Null))
Evaluated == pc \in {"plan", "emit"} /\ state # Unbound

\* C1: for a state document with a truthy child, events holds exactly one
\* event per metric whose clamped score is >= 40 and none for a metric whose
\* clamped score is <= 39; each event carries the clamped score and its band;
\* the list is ordered by score, non-increasing.
C1_EventsOfEvaluation ==
  (Evaluated /\ ChildExists) =>
    LET scores == RawScoresOfState
        events == eval_result.events
    IN  /\ \A i \in DOMAIN scores :
             Cardinality({ j \in DOMAIN events : events[j].metric = scores[i].metric })
               = IF ExpectedClamp(scores[i].score) >= 40 THEN 1 ELSE 0
        /\ \A j \in DOMAIN events :
             \E i \in DOMAIN scores :
               /\ events[j].metric = scores[i].metric
               /\ events[j].score = ExpectedClamp(scores[i].score)
               /\ events[j].level = ExpectedBand(events[j].score)
        /\ \A j, k \in DOMAIN events : j < k => events[j].score >= events[k].score

\* two events out of map order, a metric in the monitor band, a clamped score
C1_Witness ==
  /\ Evaluated /\ ChildExists
  /\ Len(eval_result.events) >= 2
  /\ Len(RawScoresOfState) > Len(eval_result.events)
  /\ RawScoresOfState[1].score < RawScoresOfState[Len(RawScoresOfState)].score
  /\ \E i \in DOMAIN RawScoresOfState : RawScoresOfState[i].score > 100

Planned == pc = "emit" /\ state # Unbound /\ plan # Unbound

\* C2: the plan has one of three shapes: no-child (disabled, nothing listed),
\* stable (enabled, nothing listed), threshold-crossed (enabled, the three crons
\* in their fixed order); composed with evaluate_child, the reason is
\* threshold-crossed exactly when the child exists and a clamped score is >= 40.
C2_PlanShapes ==
  Planned =>
    LET names == [i \in DOMAIN plan.crons |-> plan.crons[i].name]
        flagged == \E i \in DOMAIN RawScoresOfState :
                     ExpectedClamp(RawScoresOfState[i].score) >= 40
    IN  /\ ~eval_result.hasChild =>
             /\ plan.enabled = FALSE /\ plan.reason = "no-child"
             /\ plan.crons = << >> /\ plan.suggestions = << >>
        /\ (eval_result.hasChild /\ eval_result.events = << >>) =>
             /\ plan.enabled = TRUE /\ plan.reason = "stable"
             /\ plan.crons = << >> /\ plan.suggestions = << >>
        /\ (eval_result.hasChild /\ eval_result.events # << >>) =>
             /\ plan.enabled = TRUE /\ plan.reason = "threshold-crossed"
             /\ names = << "parentality-keepalive-check",
                           "parentality-instinct-intervention",
                           "parentality-recovery-check" >>
        /\ eval_result.hasChild = ChildExists
        /\ (plan.reason = "threshold-crossed") <=> (ChildExists /\ flagged)

\* a threshold-crossed plan whose only event is of a metric no actor lists
C2_Witness ==
  /\ Planned
  /\ plan.reason = "threshold-crossed"
  /\ Len(plan.crons) = 3
  /\ plan.suggestions = << >>

InTable(actor, metric) == metric \in DOMAIN PARENT_ACTIONS[actor]

\* C3: with at least one event, suggestions holds, per event and per actor,
\* exactly one suggestion if the actor's table lists the event's metric and none
\* otherwise; its level is the event's and its action the table's; suggestions
\* follow event order, parentA before parentB for one event.
C3_Suggestions ==
  (Planned /\ eval_result.events # << >>) =>
    LET events == eval_result.events
        sugg   == plan.suggestions
        EventOf(k) == CHOOSE i \in DOMAIN events : events[i].metric = sugg[k].metric
    IN  /\ \A i \in DOMAIN events : \A a \in {"parentA", "parentB"} :
             Cardinality({ k \in DOMAIN sugg :
                             sugg[k].metric = events[i].metric /\ sugg[k].parent = a })
               = IF InTable(a, events[i].metric) THEN 1 ELSE 0
        /\ \A k \in DOMAIN sugg :
             /\ sugg[k].parent \in {"parentA", "parentB"}
             /\ \E i \in DOMAIN events : events[i].metric = sugg[k].metric
             /\ sugg[k].level = events[EventOf(k)].level
             /\ sugg[k].action = PARENT_ACTIONS[sugg[k].parent][sugg[k].metric]
        /\ \A k, l \in DOMAIN sugg :
             k < l => \/ EventOf(k) < EventOf(l)
                      \/ /\ EventOf(k) = EventOf(l)
                         /\ sugg[k].parent = "parentA"
                         /\ sugg[l].parent = "parentB"

\* events of a metric of both actors, of one actor and of no actor
C3_Witness ==
  /\ Planned
  /\ Len(eval_result.events) = 3
  /\ Len(plan.suggestions) = 3
  /\ \E i \in DOMAIN eval_result.events : eval_result.events[i].metric = "protection"
  /\ \E i \in DOMAIN eval_result.events : eval_result.events[i].metric = "curiosity"
  /\ eval_result.events[1].metric # "protection"

\* the two score maps the comparator reads, and its result
PrevScoresRead == Get(Get(prev.obj, "evaluation", Empty), "scores", Empty)
CurScoresRead == Get(eval_result, "scores", Empty)
Compared == pc = "emit" /\ prev # Unbound /\ "recovery" \in DOMAIN output
HasMetric(scores, metric) == \E i \in DOMAIN scores : scores[i].metric = metric
ScoreIn(scores, metric) ==
  scores[CHOOSE i \in DOMAIN scores : scores[i].metric = metric].score
\* the current score of the previous map's entry e: its own when absent
ExpectedCur(e) ==
  IF HasMetric(CurScoresRead, e.metric) THEN ScoreIn(CurScoresRead, e.metric)
  ELSE e.score
Listed(seq, x) == \E i \in DOMAIN seq : seq[i] = x
\* the band a score is looked up as: a score no band holds is "monitor"
BandLookedUp(v) == IF v < 0 \/ v > 100 THEN "monitor" ELSE ExpectedBand(v)

\* C4: a metric of the previous map is unresolved iff its previous band is not
\* monitor, its delta is below min_improvement (8) and its current band is not
\* monitor; resolved is true exactly when unresolved is empty, and nextAction
\* is exit-instinct-context when resolved, continue-or-escalate otherwise.
C4_Unresolved ==
  Compared =>
    LET rec == output.recovery
    IN  /\ \A i \in DOMAIN PrevScoresRead :
             LET e == PrevScoresRead[i]
             IN  Listed(rec.unresolved, e.metric) <=>
                   /\ BandLookedUp(e.score) # "monitor"
                   /\ e.score - ExpectedCur(e) < 8
                   /\ BandLookedUp(ExpectedCur(e)) # "monitor"
        /\ \A k \in DOMAIN rec.unresolved : HasMetric(PrevScoresRead, rec.unresolved[k])
        /\ rec.resolved <=> (rec.unresolved = << >>)
        /\ rec.nextAction = IF rec.resolved THEN "exit-instinct-context"
                            ELSE "continue-or-escalate"

\* one metric unresolved, one resolved by a drop into monitor of less than 8,
\* as 40 -> 35
C4_Witness ==
  /\ Compared
  /\ Len(output.recovery.unresolved) = 1
  /\ \E i \in DOMAIN PrevScoresRead :
       LET e == PrevScoresRead[i]
       IN  /\ e.score = 40
           /\ ExpectedCur(e) = 35
           /\ ~Listed(output.recovery.unresolved, e.metric)

\* C5: improvements has exactly the metrics of the previous map as keys,
\* whatever their band, each with delta = previous - current, the current score
\* being the previous one when the current map lacks the metric; a metric of
\* the current map only is in neither improvements nor unresolved.
C5_Improvements ==
  Compared =>
    LET rec == output.recovery
        imp == rec.improvements
    IN  /\ Len(imp) = Len(PrevScoresRead)
        /\ \A i \in DOMAIN PrevScoresRead :
             /\ imp[i].metric = PrevScoresRead[i].metric
             /\ imp[i].delta = PrevScoresRead[i].score - ExpectedCur(PrevScoresRead[i])
             /\ ~HasMetric(CurScoresRead, PrevScoresRead[i].metric) => imp[i].delta = 0
        /\ \A j \in DOMAIN CurScoresRead :
             ~HasMetric(PrevScoresRead, CurScoresRead[j].metric) =>
               /\ \A i \in DOMAIN imp : imp[i].metric # CurScoresRead[j].metric
               /\ ~Listed(rec.unresolved, CurScoresRead[j].metric)

\* a previous metric the current map lacks, one it holds with another score, a
\* monitor-band one, and a metric of the current map only
C5_Witness ==
  /\ Compared
  /\ \E i \in DOMAIN PrevScoresRead :
       ~HasMetric(CurScoresRead, PrevScoresRead[i].metric) /\ PrevScoresRead[i].score = 35
  /\ \E i \in DOMAIN PrevScoresRead :
       /\ HasMetric(CurScoresRead, PrevScoresRead[i].metric)
       /\ output.recovery.improvements[i].delta < 0
  /\ \E j \in DOMAIN CurScoresRead : ~HasMetric(PrevScoresRead, CurScoresRead[j].metric)

Terminated == pc \in {"done", "raised"}
ReadFailed == error \in {"io-error", "parse-error"}
Complete(w) ==
  /\ w.document = output
  /\ {"evaluatedAt", "evaluation", "plan"} \subseteq DOMAIN w.document

C7_OutputShape ==
  \A k \in DOMAIN written :
    LET doc == written[k].document
    IN  /\ {"evaluatedAt", "evaluation", "plan"} \subseteq DOMAIN doc
        /\ DOMAIN doc \subseteq {"evaluatedAt", "evaluation", "plan", "recovery"}
        /\ ("recovery" \in DOMAIN doc) <=> Given(args.previous)
        /\ doc.evaluation = eval_result
        /\ "recovery" \in DOMAIN doc =>
             LET rec == doc.recovery
             IN  /\ Len(rec.improvements) = Len(PrevScoresRead)
                 /\ \A i \in DOMAIN PrevScoresRead :
                      /\ rec.improvements[i].metric = PrevScoresRead[i].metric
                      /\ rec.improvements[i].delta =
                           PrevScoresRead[i].score - ExpectedCur(PrevScoresRead[i])

\* an emitted document with a recovery over a previous score this invocation's
\* evaluation changed
C7_Witness ==
  /\ pc = "done"
  /\ Len(written) = 1
  /\ "recovery" \in DOMAIN written[1].document
  /\ \E i \in DOMAIN written[1].document.recovery.improvements :
       written[1].document.recovery.improvements[i].delta > 0

\* C8: every integer v of 0..100 lies in exactly one band of BANDS, and
\* band_for_score gives monitor for 0..39, soft for 40..69, active for 70..84
\* and urgent for 85..100.
C8_Bands ==
  (pc = "banded" /\ clamped \in 0..100) =>
    /\ Cardinality(MatchingBands(clamped)) = 1
    /\ band = ExpectedBand(clamped)

\* the raw score 85, classified without clamping
C8_Witness ==
  /\ pc = "banded"
  /\ raw = 85
  /\ classified = {85}
  /\ band = "urgent"

\* C9 as stated: band_for_score is only ever called with a score of 0..100
\* (so its fallback is never taken), in evaluate_child and in
\* close_context_if_improved alike.
C9_AsStated == classified \subseteq 0..100

\* C10 as stated: with the no-child evaluation as current one, every previous
\* metric of score >= 40 is unresolved with delta 0, under a disabled no-child
\* plan with recovery unresolved; with a previous evaluation without a score
\* map, recovery is resolved with no improvements.
C10_AsStated ==
  Compared =>
    LET rec == output.recovery
        previous == Get(prev.obj, "evaluation", Empty)
    IN  /\ ( /\ eval_result = NoChildEvaluation
             /\ \E i \in DOMAIN PrevScoresRead : PrevScoresRead[i].score >= 40 ) =>
             /\ \A i \in DOMAIN PrevScoresRead :
                  PrevScoresRead[i].score >= 40 =>
                    /\ Listed(rec.unresolved, PrevScoresRead[i].metric)
                    /\ rec.improvements[i].delta = 0
             /\ output.plan.enabled = FALSE
             /\ output.plan.reason = "no-child"
             /\ rec.resolved = FALSE
             /\ rec.nextAction = "continue-or-escalate"
        /\ "scores" \notin DOMAIN previous =>
             /\ rec.resolved = TRUE
             /\ rec.improvements = << >>

====
